---- MODULE Spec2Model ----
(***************************************************************************)
(* A model of tagdiff: the L5X structural decoder (diff/l5x.py), the L5K   *)
(* type-closure and tag enumeration (diff/project.py) and the diff routine *)
(* (compare) with its driver (diff/__main__.py).                           *)
(*                                                                         *)
(* Python values are represented as follows.                               *)
(*   None (string-typed field)  the string None ("None" is never an        *)
(*                              attribute value of the alphabet)           *)
(*   None / list                [isNone |-> TRUE, list |-> << >>] and      *)
(*                              [isNone |-> FALSE, list |-> s]             *)
(*   str used as a path segment Str(s)                                     *)
(*   tuple of ints              Tup(t)                                     *)
(*   attribute text to be       a sequence of one-character strings        *)
(*   parsed (Index, Value)                                                 *)
(*   dict                       a function; its keys are its DOMAIN        *)
(*   a raised exception         the variable error holds its class name    *)
(*   dict iterated in order     a sequence of records, each with its name  *)
(*   object attribute           a record field; a missing attribute is a   *)
(*                              field the record does not have             *)
(*   value of an L5K tag        VList(items), VDict(items) or VInt(n)      *)
(***************************************************************************)
EXTENDS Integers, Sequences, FiniteSets, TLC

VARIABLES
    \* ---- diff/l5x.py, PreExtractor (one handler per parse) ----
    ignored_elements, scope, tag_name, tag_members, tag_has_decorated_data,
    is_alias, raw_tag_data, values, no_data,
    error,      \* class name of the exception that left the handler, or NoError
    \* ---- xml.sax.parse driving the handler ----
    open,       \* the elements currently open in the document, outermost first
    nevents,    \* number of start and characters events delivered in this document
    input,      \* the events of the document still to deliver, or any event
    \* ---- diff/__main__.py ----
    docs,       \* the documents named on the command line, or none
    file,       \* index of the file being parsed
    tags,       \* tags[f]: the handler parse returned for file f
    diff, excl, \* results of compare
    pc,         \* position of the driver
    \* ---- compare, called on its own ----
    cmp_a, cmp_b,   \* the two mappings
    cmp_diffs,      \* the set it returns
    cmp_pc,
    \* ---- diff/project.py, find_target_types ----
    ctl,            \* the parsed L5K project: datatypes and aois
    all_types, target_types, start,
    type_i,         \* position of the loop over all_types
    ft_pc,
    \* ---- diff/project.py, expand_dims ----
    exp_path, exp_combos, exp_pc,
    \* ---- diff/project.py, find_target_tags and get_value ----
    ftt_scope, ftt_tags, ftt_types, targets,
    tag_values,     \* values of parse
    ftt_pc

hvars == <<ignored_elements, scope, tag_name, tag_members, tag_has_decorated_data,
           is_alias, raw_tag_data, values, no_data, error>>
saxvars == <<open, nevents, input>>
mainvars == <<docs, file, tags, diff, excl, pc>>
cmpvars == <<cmp_a, cmp_b, cmp_diffs, cmp_pc>>
\* the variables of the functions of diff/project.py and of compare on its own
typevars == <<ctl, all_types, target_types, start, type_i, ft_pc>>
expvars == <<exp_path, exp_combos, exp_pc>>
tagvars == <<ftt_scope, ftt_tags, ftt_types, targets, tag_values, ftt_pc>>
l5kvars == <<cmpvars, typevars, expvars, tagvars>>
vars == <<hvars, saxvars, mainvars, l5kvars>>

----------------------------------------------------------------------------
\* Bounds of the model.

\* Most start and characters events of a generated document (so also its
\* deepest nesting).
MaxEvents == 4
\* Number of keys, and largest value, of the mappings compare is called on.
MaxKeys == 3
MaxCmpValue == 1
\* Most dimensions of an array, and largest size of a dimension.
MaxRank == 2
MaxDim == 3

----------------------------------------------------------------------------
\* Python values.

None == "None"
NoError == "no error"
NoneList == [isNone |-> TRUE, list |-> << >>]
List(s) == [isNone |-> FALSE, list |-> s]

Str(s) == [kind |-> "str", name |-> s, tup |-> << >>]
Tup(t) == [kind |-> "tuple", name |-> "", tup |-> t]
IsTuple(x) == x.kind = "tuple"

EmptyDict == [k \in {} |-> 0]
\* d[k] = v of a dict
DictSet(d, k, v) == [x \in DOMAIN d \cup {k} |-> IF x = k THEN v ELSE d[x]]

\* Tag = collections.namedtuple("Tag", ["scope", "name", "members"])
Tag(s, n, m) == [scope |-> s, name |-> n, members |-> m]

----------------------------------------------------------------------------
\* Text conversions of diff/l5x.py.

Digits == {"0", "1", "2", "3", "4", "5", "6", "7", "8", "9"}
DigitVal(c) ==
    CASE c = "0" -> 0 [] c = "1" -> 1 [] c = "2" -> 2 [] c = "3" -> 3 [] c = "4" -> 4
      [] c = "5" -> 5 [] c = "6" -> 6 [] c = "7" -> 7 [] c = "8" -> 8 [] c = "9" -> 9

RECURSIVE NatOf(_)
NatOf(raw) ==
    IF raw = << >> THEN 0
    ELSE 10 * NatOf(SubSeq(raw, 1, Len(raw) - 1)) + DigitVal(raw[Len(raw)])

\* int(raw) succeeds: an optional sign followed by at least one digit.
IsInt(raw) ==
    LET body == IF raw # << >> /\ raw[1] = "-" THEN Tail(raw) ELSE raw
    IN  body # << >> /\ \A i \in 1..Len(body) : body[i] \in Digits

\* int(raw), for IsInt(raw)
IntOf(raw) ==
    IF raw[1] = "-" THEN 0 - NatOf(Tail(raw)) ELSE NatOf(raw)

\* s.split(",") of a string given as a sequence of characters
RECURSIVE Split(_)
Split(s) ==
    IF \A i \in 1..Len(s) : s[i] # "," THEN <<s>>
    ELSE LET i == CHOOSE j \in 1..Len(s) :
                      s[j] = "," /\ \A k \in 1..(j - 1) : s[k] # ","
         IN  <<SubSeq(s, 1, i - 1)>> \o Split(SubSeq(s, i + 1, Len(s)))

\* raw[1:-1].split(","): the surrounding brackets are cut off by position
IndexParts(raw) == Split(SubSeq(raw, 2, Len(raw) - 1))

\* tuple(int(i) for i in indices) raises no ValueError
IsIndex(raw) == \A i \in 1..Len(IndexParts(raw)) : IsInt(IndexParts(raw)[i])

\* tuple(int(i) for i in indices), for IsIndex(raw)
IndexOf(raw) == [i \in 1..Len(IndexParts(raw)) |-> IntOf(IndexParts(raw)[i])]

\* "".join(list of strings)
RECURSIVE Join(_)
Join(l) == IF l = << >> THEN << >> ELSE Head(l) \o Join(Tail(l))

HexDigits == Digits \cup {"A", "B", "C", "D", "E", "F"}
HexVal(c) ==
    CASE c \in Digits -> DigitVal(c)
      [] c = "A" -> 10 [] c = "B" -> 11 [] c = "C" -> 12
      [] c = "D" -> 13 [] c = "E" -> 14 [] c = "F" -> 15

Whitespace == {" "}
StripSpace(s) == SelectSeq(s, LAMBDA c : c \notin Whitespace)

\* bytes.fromhex(s) succeeds: after skipping whitespace, pairs of hex digits.
\* (fromhex skips whitespace only between the pairs; the alphabet of the model
\* delivers whitespace only there.)
IsHex(s) ==
    LET t == StripSpace(s)
    IN  Len(t) % 2 = 0 /\ \A i \in 1..Len(t) : t[i] \in HexDigits

\* bytes.fromhex(s), for IsHex(s): the sequence of byte values
FromHex(s) ==
    LET t == StripSpace(s)
    IN  [i \in 1..(Len(t) \div 2) |-> 16 * HexVal(t[2 * i - 1]) + HexVal(t[2 * i])]

----------------------------------------------------------------------------
\* diff/l5x.py: class PreExtractor.  Each handler is an action on the handler's
\* fields (hvars); an exception leaves the fields as the statements before it
\* set them and names its class in error.

HasAttr(attrs, k) == k \in DOMAIN attrs

\* PreExtractor.__init__
HandlerInit ==
    /\ ignored_elements = NoneList
    /\ scope = None
    /\ tag_name = None
    /\ tag_members = NoneList
    /\ tag_has_decorated_data = FALSE
    /\ is_alias = FALSE
    /\ raw_tag_data = NoneList
    /\ values = EmptyDict
    /\ no_data = EmptyDict
    /\ error = NoError

\* parse that keeps one handler for all files.
HandlerNew_reused == UNCHANGED hvars

\* handler = PreExtractor() for the next file: the same fields, primed
HandlerNew ==
    /\ ignored_elements' = NoneList
    /\ scope' = None
    /\ tag_name' = None
    /\ tag_members' = NoneList
    /\ tag_has_decorated_data' = FALSE
    /\ is_alias' = FALSE
    /\ raw_tag_data' = NoneList
    /\ values' = EmptyDict
    /\ no_data' = EmptyDict
    /\ error' = NoError

ignore_children ==
    IF ignored_elements.isNone
    THEN ignored_elements' = List(<< >>) /\ error' = NoError
    ELSE ignored_elements' = ignored_elements /\ error' = "AssertionError"

start_AddOnInstructionDefinitions(attrs) ==
    /\ ignore_children
    /\ UNCHANGED <<scope, tag_name, tag_members, tag_has_decorated_data, is_alias,
                   raw_tag_data, values, no_data>>

start_Modules(attrs) ==
    /\ ignore_children
    /\ UNCHANGED <<scope, tag_name, tag_members, tag_has_decorated_data, is_alias,
                   raw_tag_data, values, no_data>>

start_Controller(attrs) ==
    /\ scope' = "Controller"
    /\ UNCHANGED <<ignored_elements, tag_name, tag_members, tag_has_decorated_data,
                   is_alias, raw_tag_data, values, no_data, error>>

start_Program(attrs) ==
    IF HasAttr(attrs, "Name")
    THEN /\ scope' = attrs["Name"]
         /\ UNCHANGED <<ignored_elements, tag_name, tag_members,
                        tag_has_decorated_data, is_alias, raw_tag_data, values,
                        no_data, error>>
    ELSE /\ error' = "KeyError"
         /\ UNCHANGED <<ignored_elements, scope, tag_name, tag_members,
                        tag_has_decorated_data, is_alias, raw_tag_data, values,
                        no_data>>

\* start_Tag that does not suppress the children of an alias.
start_Tag_alias_not_ignored(attrs) ==
    IF ~HasAttr(attrs, "TagType")
    THEN /\ error' = "KeyError"
         /\ UNCHANGED <<ignored_elements, scope, tag_name, tag_members,
                        tag_has_decorated_data, is_alias, raw_tag_data, values,
                        no_data>>
    ELSE IF attrs["TagType"] = "Alias"
    THEN /\ is_alias' = TRUE
         /\ UNCHANGED <<ignored_elements, error, scope, tag_name, tag_members,
                        tag_has_decorated_data, raw_tag_data, values, no_data>>
    ELSE /\ is_alias' = FALSE
         /\ IF HasAttr(attrs, "Name")
            THEN /\ tag_name' = attrs["Name"]
                 /\ tag_members' = List(<< >>)
                 /\ tag_has_decorated_data' = FALSE
                 /\ error' = NoError
            ELSE /\ error' = "KeyError"
                 /\ UNCHANGED <<tag_name, tag_members, tag_has_decorated_data>>
         /\ UNCHANGED <<ignored_elements, scope, raw_tag_data, values, no_data>>

start_Tag(attrs) ==
    IF ~HasAttr(attrs, "TagType")
    THEN /\ error' = "KeyError"
         /\ UNCHANGED <<ignored_elements, scope, tag_name, tag_members,
                        tag_has_decorated_data, is_alias, raw_tag_data, values,
                        no_data>>
    ELSE IF attrs["TagType"] = "Alias"
    THEN /\ is_alias' = TRUE
         /\ ignore_children
         /\ UNCHANGED <<scope, tag_name, tag_members, tag_has_decorated_data,
                        raw_tag_data, values, no_data>>
    ELSE /\ is_alias' = FALSE
         /\ IF HasAttr(attrs, "Name")
            THEN /\ tag_name' = attrs["Name"]
                 /\ tag_members' = List(<< >>)
                 /\ tag_has_decorated_data' = FALSE
                 /\ error' = NoError
            ELSE /\ error' = "KeyError"
                 /\ UNCHANGED <<tag_name, tag_members, tag_has_decorated_data>>
         /\ UNCHANGED <<ignored_elements, scope, raw_tag_data, values, no_data>>

end_Tag ==
    /\ IF ~is_alias /\ ~tag_has_decorated_data
       THEN IF raw_tag_data.isNone
            THEN \* "".join(None)
                 error' = "TypeError" /\ UNCHANGED <<no_data, raw_tag_data>>
            ELSE IF ~IsHex(Join(raw_tag_data.list))
            THEN error' = "ValueError" /\ UNCHANGED <<no_data, raw_tag_data>>
            ELSE /\ no_data' = DictSet(no_data, Tag(scope, tag_name, << >>),
                                       FromHex(Join(raw_tag_data.list)))
                 /\ raw_tag_data' = NoneList
                 /\ error' = NoError
       ELSE /\ raw_tag_data' = NoneList
            /\ UNCHANGED <<no_data, error>>
    /\ UNCHANGED <<scope, tag_name, tag_members, tag_has_decorated_data, is_alias,
                   values>>

start_Data(attrs) ==
    /\ IF HasAttr(attrs, "Format")
       THEN /\ tag_has_decorated_data' =
                   (IF attrs["Format"] = "Decorated" THEN TRUE
                    ELSE tag_has_decorated_data)
            /\ UNCHANGED raw_tag_data
       ELSE /\ raw_tag_data' = List(<< >>)
            /\ UNCHANGED tag_has_decorated_data
    /\ UNCHANGED <<ignored_elements, scope, tag_name, tag_members, is_alias, values,
                   no_data, error>>

characters(content) ==
    /\ raw_tag_data' =
           (IF raw_tag_data.isNone THEN raw_tag_data
            ELSE List(Append(raw_tag_data.list, content)))
    /\ UNCHANGED <<ignored_elements, scope, tag_name, tag_members,
                   tag_has_decorated_data, is_alias, values, no_data, error>>

\* start_Element that skips an Element without Index.
start_Element_index_optional(attrs) ==
    /\ IF ~HasAttr(attrs, "Index")
       THEN error' = NoError /\ UNCHANGED tag_members
       ELSE IF tag_members.isNone
       THEN error' = "AttributeError" /\ UNCHANGED tag_members
       ELSE IF ~IsIndex(attrs["Index"])
       THEN error' = "ValueError" /\ UNCHANGED tag_members
       ELSE /\ tag_members' =
                   List(Append(tag_members.list, Tup(IndexOf(attrs["Index"]))))
            /\ error' = NoError
    /\ UNCHANGED <<ignored_elements, scope, tag_name, tag_has_decorated_data,
                   is_alias, raw_tag_data, values, no_data>>

start_Element(attrs) ==
    /\ IF ~HasAttr(attrs, "Index")
       THEN error' = "KeyError" /\ UNCHANGED tag_members
       ELSE IF tag_members.isNone
       THEN error' = "AttributeError" /\ UNCHANGED tag_members
       ELSE IF ~IsIndex(attrs["Index"])
       THEN error' = "ValueError" /\ UNCHANGED tag_members
       ELSE /\ tag_members' =
                   List(Append(tag_members.list, Tup(IndexOf(attrs["Index"]))))
            /\ error' = NoError
    /\ UNCHANGED <<ignored_elements, scope, tag_name, tag_has_decorated_data,
                   is_alias, raw_tag_data, values, no_data>>

\* The error append_named_member raises, or NoError
AppendNamedError(attrs) ==
    IF ~HasAttr(attrs, "Name") THEN "KeyError"
    ELSE IF tag_members.isNone THEN "AttributeError"
    ELSE NoError

append_named_member(attrs) ==
    /\ error' = AppendNamedError(attrs)
    /\ tag_members' =
           (IF AppendNamedError(attrs) = NoError
            THEN List(Append(tag_members.list, Str(attrs["Name"])))
            ELSE tag_members)
    /\ UNCHANGED <<ignored_elements, scope, tag_name, tag_has_decorated_data,
                   is_alias, raw_tag_data, values, no_data>>

end_named_member ==
    /\ IF tag_members.isNone
       THEN error' = "AttributeError" /\ UNCHANGED tag_members
       ELSE IF tag_members.list = << >>
       THEN error' = "IndexError" /\ UNCHANGED tag_members
       ELSE /\ tag_members' =
                   List(SubSeq(tag_members.list, 1, Len(tag_members.list) - 1))
            /\ error' = NoError
    /\ UNCHANGED <<scope, tag_name, tag_has_decorated_data, is_alias, raw_tag_data,
                   values, no_data>>

end_Element == end_named_member
start_StructureMember(attrs) == append_named_member(attrs)
end_StructureMember == end_named_member
start_ArrayMember(attrs) == append_named_member(attrs)
end_ArrayMember == end_named_member
end_DataValueMember == end_named_member

\* get_value that accepts every radix.
GetValueError_any_radix(attrs) ==
    IF ~HasAttr(attrs, "Radix") THEN "KeyError"
    ELSE IF ~HasAttr(attrs, "Value") THEN "KeyError"
    ELSE IF ~IsInt(attrs["Value"]) THEN "ValueError"
    ELSE NoError

\* The error get_value raises, or NoError
GetValueError(attrs) ==
    IF ~HasAttr(attrs, "Radix") THEN "KeyError"
    ELSE IF attrs["Radix"] # "Decimal" THEN "ValueError"
    ELSE IF ~HasAttr(attrs, "Value") THEN "KeyError"
    ELSE IF ~IsInt(attrs["Value"]) THEN "ValueError"
    ELSE NoError

\* PreExtractor.get_value, when it raises nothing
get_value(attrs) == IntOf(attrs["Value"])

\* start_DataValueMember that builds the key before the member name is pushed.
start_DataValueMember_key_before_push(attrs) ==
    IF AppendNamedError(attrs) # NoError
    THEN append_named_member(attrs)
    ELSE /\ tag_members' = List(Append(tag_members.list, Str(attrs["Name"])))
         /\ IF attrs["Name"] = "PRE"
            THEN IF GetValueError(attrs) # NoError
                 THEN error' = GetValueError(attrs) /\ UNCHANGED values
                 ELSE /\ values' = DictSet(values,
                                Tag(scope, tag_name, tag_members.list),
                                get_value(attrs))
                      /\ error' = NoError
            ELSE UNCHANGED <<values, error>>
         /\ UNCHANGED <<ignored_elements, scope, tag_name, tag_has_decorated_data,
                        is_alias, raw_tag_data, no_data>>

start_DataValueMember(attrs) ==
    IF AppendNamedError(attrs) # NoError
    THEN append_named_member(attrs)
    ELSE /\ tag_members' = List(Append(tag_members.list, Str(attrs["Name"])))
         /\ IF attrs["Name"] = "PRE"
            THEN IF GetValueError(attrs) # NoError
                 THEN error' = GetValueError(attrs) /\ UNCHANGED values
                 ELSE /\ values' = DictSet(values,
                                Tag(scope, tag_name, tag_members'.list),
                                get_value(attrs))
                      /\ error' = NoError
            ELSE UNCHANGED <<values, error>>
         /\ UNCHANGED <<ignored_elements, scope, tag_name, tag_has_decorated_data,
                        is_alias, raw_tag_data, no_data>>

\* getattr(self, f"start_{name}") and the call of the method found
DispatchStart(name, attrs) ==
    CASE name = "AddOnInstructionDefinitions" -> start_AddOnInstructionDefinitions(attrs)
      [] name = "Modules" -> start_Modules(attrs)
      [] name = "Controller" -> start_Controller(attrs)
      [] name = "Program" -> start_Program(attrs)
      [] name = "Tag" -> start_Tag(attrs)
      [] name = "Data" -> start_Data(attrs)
      [] name = "Element" -> start_Element(attrs)
      [] name = "StructureMember" -> start_StructureMember(attrs)
      [] name = "ArrayMember" -> start_ArrayMember(attrs)
      [] name = "DataValueMember" -> start_DataValueMember(attrs)
      [] OTHER -> UNCHANGED hvars

\* getattr(self, f"end_{name}") and the call of the method found.  No end
\* handler touches ignored_elements: endElement sets it.
DispatchEnd(name) ==
    CASE name = "Tag" -> end_Tag
      [] name = "Element" -> end_Element
      [] name = "StructureMember" -> end_StructureMember
      [] name = "ArrayMember" -> end_ArrayMember
      [] name = "DataValueMember" -> end_DataValueMember
      [] OTHER -> UNCHANGED <<scope, tag_name, tag_members, tag_has_decorated_data,
                               is_alias, raw_tag_data, values, no_data, error>>

\* startElement without the test of ignored_elements: every start event is
\* dispatched.
startElement_dispatch_always(name, attrs) == DispatchStart(name, attrs)

\* startElement that dispatches also while ignored_elements is the empty list.
startElement_dispatch_when_empty(name, attrs) ==
    IF ~ignored_elements.isNone /\ ignored_elements.list # << >>
    THEN /\ ignored_elements' = List(Append(ignored_elements.list, name))
         /\ UNCHANGED <<scope, tag_name, tag_members, tag_has_decorated_data,
                        is_alias, raw_tag_data, values, no_data, error>>
    ELSE DispatchStart(name, attrs)

startElement(name, attrs) ==
    IF ~ignored_elements.isNone
    THEN /\ ignored_elements' = List(Append(ignored_elements.list, name))
         /\ UNCHANGED <<scope, tag_name, tag_members, tag_has_decorated_data,
                        is_alias, raw_tag_data, values, no_data, error>>
    ELSE DispatchStart(name, attrs)

\* endElement that leaves ignored_elements as it is when it dispatches.
endElement_keeps_suppression(name) ==
    IF ~ignored_elements.isNone /\ ignored_elements.list # << >>
    THEN /\ ignored_elements' =
                List(SubSeq(ignored_elements.list, 1, Len(ignored_elements.list) - 1))
         /\ UNCHANGED <<scope, tag_name, tag_members, tag_has_decorated_data,
                        is_alias, raw_tag_data, values, no_data, error>>
    ELSE /\ ignored_elements' = ignored_elements
         /\ DispatchEnd(name)

endElement(name) ==
    IF ~ignored_elements.isNone /\ ignored_elements.list # << >>
    THEN /\ ignored_elements' =
                List(SubSeq(ignored_elements.list, 1, Len(ignored_elements.list) - 1))
         /\ UNCHANGED <<scope, tag_name, tag_members, tag_has_decorated_data,
                        is_alias, raw_tag_data, values, no_data, error>>
    ELSE /\ ignored_elements' = NoneList
         /\ DispatchEnd(name)

----------------------------------------------------------------------------
\* compare of diff/__main__.py (diff/l5x.py and diff/project.py hold the same
\* function): the loop over the keys of a, one key per iteration.

\* The loop of compare with "except KeyError: diffs.add(key)".
RECURSIVE CompareLoop_keyerror_adds(_, _, _, _)
CompareLoop_keyerror_adds(keys, a, b, diffs) ==
    IF keys = {} THEN diffs
    ELSE LET key == CHOOSE k \in keys : TRUE
         IN  CompareLoop_keyerror_adds(keys \ {key}, a, b,
                 IF key \notin DOMAIN b THEN diffs \cup {key}
                 ELSE IF a[key] # b[key] THEN diffs \cup {key}
                 ELSE diffs)

RECURSIVE CompareLoop(_, _, _, _)
CompareLoop(keys, a, b, diffs) ==
    IF keys = {} THEN diffs
    ELSE LET key == CHOOSE k \in keys : TRUE
         IN  CompareLoop(keys \ {key}, a, b,
                 IF key \notin DOMAIN b THEN diffs          \* KeyError: continue
                 ELSE IF a[key] # b[key] THEN diffs \cup {key}
                 ELSE diffs)

\* compare that also reports the keys of a that b lacks.
compare_missing_reported(a, b) ==
    CompareLoop(DOMAIN a, a, b, {}) \cup (DOMAIN a \ DOMAIN b)

compare(a, b) == CompareLoop(DOMAIN a, a, b, {})

\* compare called on any two mappings over a few keys.
CmpKeys == {Tag("Controller", "T1", <<Tup(<<i>>), Str("PRE")>>) : i \in 0..(MaxKeys - 1)}
CmpValues == 0..MaxCmpValue
Dicts(K, V) == UNION {[D -> V] : D \in SUBSET K}

CompareIdle ==
    cmp_a = EmptyDict /\ cmp_b = EmptyDict /\ cmp_diffs = {} /\ cmp_pc = "idle"

----------------------------------------------------------------------------
\* diff/project.py, find_target_types(ctl)
\*
\* ctl.datatypes and ctl.aois are dicts in insertion order: sequences of type
\* records, each with its name.  A UDT has the field members, an AOI has the
\* field local_tags; both are dicts in insertion order: sequences of member
\* records, each with its name.  A UDT bit member has no field datatype.  dim
\* is a tuple of sizes, << >> where the member is not an array.

HasField(r, f) == f \in DOMAIN r

\* target_types = {"TIMER": {("PRE",)}, "COUNTER": {("PRE",)}}
InitialTargetTypes ==
    [n \in {"TIMER", "COUNTER"} |-> {<<Str("PRE")>>}]

\* position of the key name in a dict kept as a sequence, 0 if absent
RECURSIVE KeyIndex(_, _)
KeyIndex(d, name) ==
    IF d = << >> THEN 0
    ELSE IF d[Len(d)].name = name THEN Len(d)
    ELSE KeyIndex(SubSeq(d, 1, Len(d) - 1), name)

\* d.update(other): an existing key keeps its place and takes the new value
RECURSIVE DictUpdate(_, _)
DictUpdate(d, other) ==
    IF other = << >> THEN d
    ELSE LET item == Head(other)
             i == KeyIndex(d, item.name)
         IN  DictUpdate(IF i = 0 THEN Append(d, item)
                        ELSE [d EXCEPT ![i] = item],
                        Tail(other))

\* all_types = copy.copy(ctl.datatypes); all_types.update(ctl.aois)
AllTypes(c) == DictUpdate(c.datatypes, c.aois)

\* try: members = all_types[type_name].members
\* except AttributeError: members = all_types[type_name].local_tags
MembersOf(type) ==
    IF HasField(type, "members") THEN type.members ELSE type.local_tags

\* p = [mname]; if member.dim: p.append(member.dim); p.extend(path); tuple(p)
MemberPath(member, path) ==
    <<Str(member.name)>>
        \o (IF member.dim # << >> THEN <<Tup(member.dim)>> ELSE << >>)
        \o path

\* The loop over members.items() of one type.  When the member's datatype is
\* the type itself, target_paths and paths are the same set object: adding a
\* path it does not hold yet while iterating it raises RuntimeError (the
\* mapping is a local of the function and is lost with the exception).
RECURSIVE MembersLoop(_, _, _)
MembersLoop(tt, type_name, members) ==
    IF members = << >> THEN [target_types |-> tt, error |-> NoError]
    ELSE LET member == Head(members)
         IN  IF ~HasField(member, "datatype")              \* AttributeError
             THEN MembersLoop(tt, type_name, Tail(members))
             ELSE IF member.datatype \notin DOMAIN tt        \* KeyError
             THEN MembersLoop(tt, type_name, Tail(members))
             ELSE LET target_paths == tt[member.datatype]
                      paths == IF type_name \in DOMAIN tt THEN tt[type_name]
                               ELSE {}
                      added == {MemberPath(member, path) : path \in target_paths}
                  IN  IF member.datatype = type_name /\ ~(added \subseteq paths)
                      THEN [target_types |-> tt, error |-> "RuntimeError"]
                      ELSE MembersLoop(DictSet(tt, type_name, paths \cup added),
                                       type_name, Tail(members))

\* for type_name in all_types: one pass, from the type at position i
RECURSIVE TypesLoop(_, _, _)
TypesLoop(tt, types, i) ==
    IF i > Len(types) THEN [target_types |-> tt, error |-> NoError]
    ELSE LET r == MembersLoop(tt, types[i].name, MembersOf(types[i]))
         IN  IF r.error # NoError THEN r
             ELSE TypesLoop(r.target_types, types, i + 1)

\* while True: start = len(target_types); <pass>;
\*     if len(target_types) == start: return target_types
RECURSIVE PassLoop(_, _)
PassLoop(tt, types) ==
    LET r == TypesLoop(tt, types, 1)
    IN  IF r.error # NoError THEN r
        ELSE IF Cardinality(DOMAIN r.target_types) = Cardinality(DOMAIN tt)
        THEN r
        ELSE PassLoop(r.target_types, types)

find_target_types(c) == PassLoop(InitialTargetTypes, AllTypes(c))

\* The catalogs find_target_types is called on: three types that are UDTs or
\* AOIs, in any order, each with a member m and possibly a counter t before
\* or after it.
TypeNames == {"A", "B", "C"}
MemberM ==
    {[name |-> "m", datatype |-> d, dim |-> << >>] : d \in TypeNames \cup {"DINT"}}
        \cup {[name |-> "m", datatype |-> "TIMER", dim |-> <<2>>]}
        \cup {[name |-> "m", dim |-> << >>]}
MemberT == [name |-> "t", datatype |-> "COUNTER", dim |-> << >>]
MemberLists ==
    UNION {{<<m>>, <<m, MemberT>>, <<MemberT, m>>} : m \in MemberM}
Udt(n, ms) == [name |-> n, members |-> ms]
Aoi(n, ms) == [name |-> n, local_tags |-> ms]
Orders(S) ==
    {p \in [1..Cardinality(S) -> S] : \A x \in S : \E i \in DOMAIN p : p[i] = x}
CatalogsOf(names) ==
    {[datatypes |-> [i \in 1..k |-> Udt(order[i], ms[order[i]])],
      aois |-> [i \in 1..(Cardinality(names) - k) |->
                    Aoi(order[k + i], ms[order[k + i]])]] :
        order \in Orders(names),
        k \in 0..Cardinality(names),
        ms \in [names -> MemberLists]}

TypesIdle ==
    /\ ctl = [datatypes |-> << >>, aois |-> << >>]
    /\ all_types = << >>
    /\ target_types = EmptyDict
    /\ start = 0
    /\ type_i = 0
    /\ ft_pc = "idle"

----------------------------------------------------------------------------
\* diff/project.py, expand_dims(path)

\* range(d)
Range_from_one(d) == [i \in 1..d |-> i]
Range(d) == [i \in 1..d |-> i - 1]

\* itertools.product(*iterables): its tuples in the order it yields them, the
\* last iterable advancing fastest; one empty tuple for no iterable
RECURSIVE Product(_)
Product(iterables) ==
    IF iterables = << >> THEN << << >> >>
    ELSE LET first == Head(iterables)
             rest == Product(Tail(iterables))
             n == Len(rest)
         IN  [k \in 1..(Len(first) * n) |->
                 <<first[((k - 1) \div n) + 1]>> \o rest[((k - 1) % n) + 1]]

\* indices: the positions of the tuples of path (counted from 1 here)
Indices(path) ==
    LET IsDim(i) == IsTuple(path[i])
    IN  SelectSeq([i \in 1..Len(path) |-> i], IsDim)

\* products: itertools.product(*[range(d) for d in dim]) of each tuple of path
Products(path) ==
    LET indices == Indices(path)
    IN  [k \in 1..Len(indices) |->
            LET dim == path[indices[k]].tup
            IN  Product([a \in 1..Len(dim) |-> Range(dim[a])])]

\* template[indices[i]] = dim for every i, dim of enumerate(dims)
FillTemplate(path, indices, dims) ==
    [j \in 1..Len(path) |->
        IF \E i \in 1..Len(indices) : indices[i] = j
        THEN Tup(dims[CHOOSE i \in 1..Len(indices) : indices[i] = j])
        ELSE path[j]]

expand_dims(path) ==
    LET indices == Indices(path)
        combos == Product(Products(path))
    IN  {FillTemplate(path, indices, combos[k]) : k \in 1..Len(combos)}

\* The templates expand_dims is called on: [shape] tmr [shape] PRE.
SizeTuples(rank, sizes) == [1..rank -> sizes]
Shapes(maxrank, sizes) == UNION {SizeTuples(r, sizes) : r \in 1..maxrank}
OptionalShape(shapes) == {<< >>} \cup {<<Tup(s)>> : s \in shapes}
Templates ==
    {a \o <<Str("tmr")>> \o b \o <<Str("PRE")>> :
        a \in OptionalShape(Shapes(MaxRank, 0..MaxDim)),
        b \in OptionalShape(Shapes(1, 0..MaxDim))}

ExpandIdle ==
    exp_path = << >> /\ exp_combos = {} /\ exp_pc = "idle"

----------------------------------------------------------------------------
\* diff/project.py, find_target_tags(scope, tags, types) and get_value(tag, scope)
\*
\* tags is the dict of the tags declared in a scope, a function of their
\* names; a tag has a datatype, a dim (<< >> where it is not an array) and a
\* value.  A value is a list, a dict of members or an integer.

VList(items) == [kind |-> "list", items |-> items]
VDict(items) == [kind |-> "dict", items |-> items]
VInt(n) == [kind |-> "int", items |-> n]

\* path = list(path); path.insert(0, tag.dim), for an array tag
TagPath(tag, path) ==
    IF tag.dim # << >> THEN <<Tup(tag.dim)>> \o path ELSE path

find_target_tags_dim_dropped(s, ts, tys) ==
    UNION {UNION {{Tag(s, name, p) : p \in expand_dims(path)} :
                  path \in tys[ts[name].datatype]} :
           name \in {n \in DOMAIN ts : ts[n].datatype \in DOMAIN tys}}
find_target_tags(s, ts, tys) ==
    UNION {UNION {{Tag(s, name, p) : p \in expand_dims(TagPath(ts[name], path))} :
                  path \in tys[ts[name].datatype]} :
           name \in {n \in DOMAIN ts : ts[n].datatype \in DOMAIN tys}}   \* KeyError: continue

\* reversed(member)
Reversed_same_order(s) == s
Reversed(s) == [i \in 1..Len(s) |-> s[Len(s) + 1 - i]]

\* for dim in dims: value = value[dim]
RECURSIVE IndexDims(_, _)
IndexDims(value, dims) ==
    IF dims = << >> THEN [error |-> NoError, value |-> value]
    ELSE IF value.kind = "int" THEN [error |-> "TypeError", value |-> value]
    ELSE IF value.kind = "dict" THEN [error |-> "KeyError", value |-> value]
    ELSE IF Head(dims) >= Len(value.items)
    THEN [error |-> "IndexError", value |-> value]
    ELSE IndexDims(value.items[Head(dims) + 1], Tail(dims))

\* for member in tag.members: value = value[...]
RECURSIVE MemberWalk(_, _)
MemberWalk(value, members) ==
    IF members = << >> THEN [error |-> NoError, value |-> value]
    ELSE LET member == Head(members)
         IN  IF IsTuple(member)
             THEN LET r == IndexDims(value, Reversed(member.tup))
                  IN  IF r.error # NoError THEN r
                      ELSE MemberWalk(r.value, Tail(members))
             ELSE IF value.kind # "dict"
             THEN [error |-> "TypeError", value |-> value]
             ELSE IF member.name \notin DOMAIN value.items
             THEN [error |-> "KeyError", value |-> value]
             ELSE MemberWalk(value.items[member.name], Tail(members))

\* get_value of diff/project.py
project_get_value(tag, scope_tags) ==
    MemberWalk(scope_tags[tag.name].value, tag.members)

\* The value l5k gives a tag: an array is a list as long as its last dimension
\* of arrays of the dimensions before it; a structure is a dict of its
\* members; an integer is the code of its place in the tag.
RECURSIVE ArrayValue(_, _, _, _)
RECURSIVE TypeValue(_, _, _)
ArrayValue(defs, dim, datatype, code) ==
    IF dim = << >> THEN TypeValue(defs, datatype, code)
    ELSE VList([k \in 1..dim[Len(dim)] |->
                   ArrayValue(defs, SubSeq(dim, 1, Len(dim) - 1), datatype,
                              code * 10 + (k - 1))])
TypeValue(defs, datatype, code) ==
    IF datatype \in {"TIMER", "COUNTER"}
    THEN VDict([n \in {"PRE", "ACC"} |->
                   VInt(code * 10 + (IF n = "PRE" THEN 1 ELSE 2))])
    ELSE IF KeyIndex(defs, datatype) = 0 THEN VInt(code)
    ELSE LET members == defs[KeyIndex(defs, datatype)].members
         IN  VDict([n \in {members[j].name : j \in 1..Len(members)} |->
                       LET j == KeyIndex(members, n)
                       IN  ArrayValue(defs, members[j].dim, members[j].datatype,
                                      code * 10 + j)])

\* The projects find_target_tags is called on: MYUDT with a timer, or with an
\* array of timers and a counter; a tag Arr and possibly a tag X.
UdtDefs ==
    {<<Udt("MYUDT", <<[name |-> "tmr", datatype |-> "TIMER", dim |-> << >>]>>)>>,
     <<Udt("MYUDT", <<[name |-> "tmr", datatype |-> "TIMER", dim |-> <<2>>],
                      [name |-> "cnt", datatype |-> "COUNTER", dim |-> << >>]>>)>>}
TagDims == {<< >>} \cup Shapes(MaxRank, 1..MaxDim)
DeclaredTag(defs, datatype, dim, code) ==
    [datatype |-> datatype, dim |-> dim,
     value |-> ArrayValue(defs, dim, datatype, code)]
DeclaredTags(defs) ==
    UNION {{[n \in {"Arr"} |-> DeclaredTag(defs, dt, dim, 1)]} \cup
           {[n \in {"Arr", "X"} |->
                IF n = "Arr" THEN DeclaredTag(defs, dt, dim, 1)
                ELSE DeclaredTag(defs, x, << >>, 2)] : x \in {"TIMER", "DINT"}} :
           dt \in {"MYUDT", "TIMER", "DINT"}, dim \in TagDims}

TagsIdle ==
    /\ ftt_scope = None /\ ftt_tags = EmptyDict /\ ftt_types = EmptyDict
    /\ targets = {} /\ tag_values = EmptyDict /\ ftt_pc = "idle"

----------------------------------------------------------------------------
\* xml.sax.parse(filename, handler): the parser delivers the events of a
\* well-formed document (one root element, every element closed in order).
\* A document is either any well-nested sequence over the alphabet below, made
\* up event by event, or one of the project files of Docs.

NoAttrs == [Use |-> "Target"]   \* attributes no handler reads

TagNames == {"T1", "T2"}
\* The texts of Value and Index attributes, with the numbers they denote.
PresetValues == {[text |-> <<"1", "0", "0">>, int |-> 100],
                 [text |-> <<"2", "5", "0">>, int |-> 250]}
IndexTexts == {[text |-> <<"[", "1", ",", "0", "]">>, tuple |-> <<1, 0>>]}

\* Elements that lack an attribute their handler reads, and an alias Tag and
\* a member other than PRE that lack attributes their handlers do not read.
MissingAttrEvents ==
    {[name |-> "Tag", attrs |-> [TagType |-> "Base"]],
     [name |-> "Tag", attrs |-> [TagType |-> "Alias"]],
     [name |-> "Element", attrs |-> NoAttrs],
     [name |-> "StructureMember", attrs |-> NoAttrs],
     [name |-> "DataValueMember", attrs |-> [Radix |-> "Decimal", Value |-> <<"0">>]],
     [name |-> "DataValueMember", attrs |-> [Name |-> "PRE", Value |-> <<"1", "0", "0">>]],
     [name |-> "DataValueMember", attrs |-> [Name |-> "PRE", Radix |-> "Decimal"]],
     [name |-> "DataValueMember", attrs |-> [Name |-> "ACC"]]}

StartEvents ==
    {[name |-> n, attrs |-> NoAttrs] :
        n \in {"Controller", "AddOnInstructionDefinitions", "Modules", "Tags"}}
    \cup {[name |-> "Program", attrs |-> [Name |-> "P1"]]}
    \cup {[name |-> "Tag", attrs |-> [Name |-> n, TagType |-> "Base"]] :
            n \in TagNames}
    \cup {[name |-> "Tag", attrs |-> [Name |-> "T2", TagType |-> "Alias"]]}
    \cup {[name |-> "Data", attrs |-> a] :
            a \in {[Format |-> "Decorated"], [Format |-> "L5K"], NoAttrs}}
    \cup {[name |-> "Element", attrs |-> [Index |-> x.text]] : x \in IndexTexts}
    \cup {[name |-> n, attrs |-> [Name |-> "tmr"]] :
            n \in {"StructureMember", "ArrayMember"}}
    \cup {[name |-> "DataValueMember",
           attrs |-> [Name |-> "PRE", Radix |-> "Decimal", Value |-> v.text]] :
            v \in PresetValues}
    \cup {[name |-> "DataValueMember",
           attrs |-> [Name |-> "PRE", Radix |-> "Hex", Value |-> <<"1", "0", "0">>]]}
    \cup MissingAttrEvents

\* Character content: of a made-up document, and of the project files.
Contents == {<<"0", "A">>, <<"F">>}
DocContents == {<<"0", "A">>, <<"F", "F">>}

\* Events of a project file.
S(name, attrs) == [type |-> "start", name |-> name, attrs |-> attrs, content |-> << >>]
E == [type |-> "end", name |-> "", attrs |-> NoAttrs, content |-> << >>]
C(content) == [type |-> "characters", name |-> "", attrs |-> NoAttrs, content |-> content]

\* A project file with one controller-scope tag T1: its kind, the format of its
\* Data element, its raw payload and the value of its member PRE.
Doc(tagtype, format, raw, value) ==
    << S("Controller", NoAttrs),
       S("Tag", [Name |-> "T1", TagType |-> tagtype]),
       S("Data", format),
       C(raw),
       S("DataValueMember", [Name |-> "PRE", Radix |-> "Decimal", Value |-> value]),
       E, E, E, E >>

Docs ==
    {Doc(t, f, r, v.text) :
        t \in {"Base", "Alias"}, f \in {[Format |-> "Decorated"], NoAttrs},
        r \in DocContents, v \in PresetValues}

DocStartEvents ==
    UNION {{[name |-> d[i].name, attrs |-> d[i].attrs] :
                i \in {j \in 1..Len(d) : d[j].type = "start"}} : d \in Docs}

AnyEvent == [any |-> TRUE, events |-> << >>]
EventsOf(doc) == [any |-> FALSE, events |-> doc]

\* The parser may deliver this event next.
Delivers(type, name, attrs, content) ==
    IF input.any
    THEN CASE type = "start" ->
                /\ [name |-> name, attrs |-> attrs] \in StartEvents
                /\ nevents < MaxEvents
                /\ open = << >> => nevents = 0
           [] type = "end" -> open # << >>
           [] OTHER -> nevents < MaxEvents /\ open # << >> /\ content \in Contents
    ELSE /\ input.events # << >>
         /\ Head(input.events) =
                [type |-> type, name |-> name, attrs |-> attrs, content |-> content]

Delivered == IF input.any THEN input ELSE EventsOf(Tail(input.events))

IsAliasTag(name, attrs) ==
    name = "Tag" /\ HasAttr(attrs, "TagType") /\ attrs["TagType"] = "Alias"
IsBaseTag(name, attrs) ==
    name = "Tag" /\ HasAttr(attrs, "TagType") /\ attrs["TagType"] # "Alias"
SuppressionStart(name, attrs) ==
    name \in {"AddOnInstructionDefinitions", "Modules"} \/ IsAliasTag(name, attrs)

\* An open element as the parser knows it, with what the properties below need
\* of its history: the mappings as they were at the start of an element that
\* starts suppression, whether a non-alias Tag was dispatched inside it,
\* whether any Tag was dispatched inside it, and whether a Data element of
\* format Decorated was dispatched inside it.
Frame(name, attrs) ==
    [name |-> name, attrs |-> attrs,
     values0 |-> IF SuppressionStart(name, attrs) THEN values ELSE EmptyDict,
     no_data0 |-> IF SuppressionStart(name, attrs) THEN no_data ELSE EmptyDict,
     nested |-> FALSE,
     tag_inside |-> FALSE,
     decorated |-> FALSE]

MarkNested(frames, name, attrs) ==
    IF ignored_elements.isNone /\ IsBaseTag(name, attrs)
    THEN [i \in 1..Len(frames) |->
             IF frames[i].name = "Tag" THEN [frames[i] EXCEPT !.nested = TRUE]
             ELSE frames[i]]
    ELSE frames

IsDecoratedData(name, attrs) ==
    name = "Data" /\ HasAttr(attrs, "Format") /\ attrs["Format"] = "Decorated"

MarkInside(frames, name, attrs) ==
    IF ~ignored_elements.isNone THEN frames
    ELSE [i \in 1..Len(frames) |->
             IF frames[i].name # "Tag" THEN frames[i]
             ELSE [frames[i] EXCEPT
                      !.tag_inside = @ \/ name = "Tag",
                      !.decorated = @ \/ IsDecoratedData(name, attrs)]]

Parsing == pc = "parsing" /\ error = NoError

SaxStart(name, attrs) ==
    /\ Parsing
    /\ Delivers("start", name, attrs, << >>)
    /\ startElement(name, attrs)
    /\ open' = Append(MarkInside(MarkNested(open, name, attrs), name, attrs),
                       Frame(name, attrs))
    /\ nevents' = nevents + 1
    /\ input' = Delivered
    /\ UNCHANGED mainvars
    /\ UNCHANGED l5kvars

SaxEnd ==
    /\ Parsing
    /\ Delivers("end", "", NoAttrs, << >>)
    /\ endElement(open[Len(open)].name)
    /\ open' = SubSeq(open, 1, Len(open) - 1)
    /\ input' = Delivered
    /\ UNCHANGED <<nevents, mainvars>>
    /\ UNCHANGED l5kvars

SaxCharacters(content) ==
    /\ Parsing
    /\ Delivers("characters", "", NoAttrs, content)
    /\ characters(content)
    /\ nevents' = nevents + 1
    /\ input' = Delivered
    /\ UNCHANGED <<open, mainvars>>
    /\ UNCHANGED l5kvars

StartElement == \E ev \in StartEvents \cup DocStartEvents : SaxStart(ev.name, ev.attrs)
EndElement == SaxEnd
Characters == \E c \in Contents \cup DocContents : SaxCharacters(c)

----------------------------------------------------------------------------
\* diff/l5x.py parse and diff/__main__.py

NoFiles == << >>
Handler == [values |-> values, no_data |-> no_data]

\* handler = PreExtractor(); xml.sax.parse(filename, handler); return handler.
\* After the first of two files the next parse starts with a fresh handler.
ParseReturn ==
    /\ Parsing
    /\ open = << >>
    /\ nevents > 0
    /\ IF input.any THEN TRUE ELSE input.events = << >>
    /\ tags' = Append(tags, Handler)
    /\ IF file < Len(docs)
       THEN /\ file' = file + 1
            /\ input' = EventsOf(docs[file + 1])
            /\ nevents' = 0
            /\ HandlerNew
            /\ UNCHANGED <<open, pc>>
       ELSE /\ pc' = "returned"
            /\ UNCHANGED <<hvars, open, nevents, input, file>>
    /\ UNCHANGED <<docs, diff, excl>>
    /\ UNCHANGED l5kvars

\* an exception of a handler leaves xml.sax.parse, parse and the program
ParseRaise ==
    /\ pc = "parsing"
    /\ error # NoError
    /\ pc' = "raised"
    /\ UNCHANGED <<hvars, saxvars, docs, file, tags, diff, excl>>
    /\ UNCHANGED l5kvars

\* Main with the value diff taken of the no_data mappings.
Main_diff_of_no_data ==
    /\ pc = "returned"
    /\ Len(tags) = 2
    /\ diff' = compare(tags[1].no_data, tags[2].no_data)
    /\ excl' = compare(tags[1].no_data, tags[2].no_data)
    /\ pc' = "reported"
    /\ UNCHANGED <<hvars, saxvars, docs, file, tags>>
    /\ UNCHANGED l5kvars

\* diff = compare(values of the two files); excl = compare(no_data of the two);
\* report.generate(args.l5x, hashes, tags, diff, excl)
Main ==
    /\ pc = "returned"
    /\ Len(tags) = 2
    /\ diff' = compare(tags[1].values, tags[2].values)
    /\ excl' = compare(tags[1].no_data, tags[2].no_data)
    /\ pc' = "reported"
    /\ UNCHANGED <<hvars, saxvars, docs, file, tags>>
    /\ UNCHANGED l5kvars

Init ==
    /\ HandlerInit
    /\ open = << >>
    /\ nevents = 0
    /\ \/ docs = NoFiles /\ input = AnyEvent
       \/ \E a \in Docs, b \in Docs : docs = <<a, b>> /\ input = EventsOf(a)
    /\ file = 1
    /\ tags = << >>
    /\ diff = {}
    /\ excl = {}
    /\ pc = "parsing"
    /\ CompareIdle
    /\ TypesIdle /\ ExpandIdle /\ TagsIdle

Next ==
    \/ StartElement
    \/ EndElement
    \/ Characters
    \/ ParseReturn
    \/ ParseRaise
    \/ Main

Spec == Init /\ [][Next]_vars

\* The handler and the driver at rest, for the specifications of the functions.
DecoderIdle ==
    /\ HandlerInit
    /\ open = << >> /\ nevents = 0 /\ input = AnyEvent
    /\ docs = NoFiles /\ file = 1 /\ tags = << >> /\ diff = {} /\ excl = {}
    /\ pc = "idle"

----------------------------------------------------------------------------
\* compare on its own.

InitCompare ==
    /\ DecoderIdle
    /\ cmp_a \in Dicts(CmpKeys, CmpValues)
    /\ cmp_b \in Dicts(CmpKeys, CmpValues)
    /\ cmp_diffs = {}
    /\ cmp_pc = "call"
    /\ TypesIdle /\ ExpandIdle /\ TagsIdle

Compare ==
    /\ cmp_pc = "call"
    /\ cmp_diffs' = compare(cmp_a, cmp_b)
    /\ cmp_pc' = "returned"
    /\ UNCHANGED <<cmp_a, cmp_b, hvars, saxvars, mainvars, typevars, expvars, tagvars>>

NextCompare == Compare

SpecCompare == InitCompare /\ [][NextCompare]_vars

----------------------------------------------------------------------------
\* find_target_types on its own, one step per type of a pass.

InitTypes ==
    /\ DecoderIdle /\ CompareIdle /\ ExpandIdle /\ TagsIdle
    /\ ctl \in CatalogsOf(TypeNames)
    /\ all_types = << >>
    /\ target_types = EmptyDict
    /\ start = 0
    /\ type_i = 0
    /\ ft_pc = "call"

\* lines 61-67 and the entry of the first pass
TypesCall ==
    /\ ft_pc = "call"
    /\ target_types' = InitialTargetTypes
    /\ all_types' = AllTypes(ctl)
    /\ start' = Cardinality(DOMAIN InitialTargetTypes)
    /\ type_i' = 1
    /\ ft_pc' = "pass"
    /\ UNCHANGED <<ctl, hvars, saxvars, mainvars, cmpvars, expvars, tagvars>>

\* the body of for type_name in all_types, for one type
TypesStep ==
    /\ ft_pc = "pass"
    /\ type_i <= Len(all_types)
    /\ LET r == MembersLoop(target_types, all_types[type_i].name,
                            MembersOf(all_types[type_i]))
       IN  IF r.error # NoError
           THEN /\ ft_pc' = "raised"
                /\ UNCHANGED <<target_types, type_i>>
           ELSE /\ target_types' = r.target_types
                /\ type_i' = type_i + 1
                /\ UNCHANGED ft_pc
    /\ UNCHANGED <<ctl, all_types, start, hvars, saxvars, mainvars, cmpvars, expvars, tagvars>>

\* the end of a pass: return, or start = len(target_types) of the next pass
TypesPassEnd ==
    /\ ft_pc = "pass"
    /\ type_i > Len(all_types)
    /\ IF Cardinality(DOMAIN target_types) = start
       THEN /\ ft_pc' = "returned"
            /\ UNCHANGED <<start, type_i>>
       ELSE /\ start' = Cardinality(DOMAIN target_types)
            /\ type_i' = 1
            /\ UNCHANGED ft_pc
    /\ UNCHANGED <<ctl, all_types, target_types, hvars, saxvars, mainvars, cmpvars, expvars, tagvars>>

NextTypes ==
    \/ TypesCall
    \/ TypesStep
    \/ TypesPassEnd

SpecTypes == InitTypes /\ [][NextTypes]_vars
\* the interpreter runs the function to its end
FairSpecTypes == SpecTypes /\ WF_vars(NextTypes)

----------------------------------------------------------------------------
\* expand_dims on its own.

InitExpand ==
    /\ DecoderIdle /\ CompareIdle /\ TypesIdle /\ TagsIdle
    /\ exp_path \in Templates
    /\ exp_combos = {}
    /\ exp_pc = "call"

ExpandDims ==
    /\ exp_pc = "call"
    /\ exp_combos' = expand_dims(exp_path)
    /\ exp_pc' = "returned"
    /\ UNCHANGED <<exp_path, hvars, saxvars, mainvars, cmpvars, typevars, tagvars>>

NextExpand == ExpandDims

SpecExpand == InitExpand /\ [][NextExpand]_vars

----------------------------------------------------------------------------
\* find_target_tags for one scope and the values of its targets.

InitTags ==
    /\ DecoderIdle /\ CompareIdle /\ TypesIdle /\ ExpandIdle
    /\ ftt_scope \in {"Controller", "P1"}
    /\ \E defs \in UdtDefs :
          /\ ftt_types = find_target_types([datatypes |-> defs, aois |-> << >>]).target_types
          /\ ftt_tags \in DeclaredTags(defs)
    /\ targets = {}
    /\ tag_values = EmptyDict
    /\ ftt_pc = "call"

\* tags = find_target_tags(scope, tags, types)
FindTargetTags ==
    /\ ftt_pc = "call"
    /\ targets' = find_target_tags(ftt_scope, ftt_tags, ftt_types)
    /\ ftt_pc' = "found"
    /\ UNCHANGED <<ftt_scope, ftt_tags, ftt_types, tag_values>>
    /\ UNCHANGED <<hvars, saxvars, mainvars, cmpvars, typevars, expvars>>

\* for tag in tags: values[tag] = get_value(tag, scope); an exception of
\* get_value leaves the loop
GetValues ==
    /\ ftt_pc = "found"
    /\ LET r == [t \in targets |-> project_get_value(t, ftt_tags)]
       IN  IF \E t \in targets : r[t].error # NoError
           THEN /\ ftt_pc' = "raised"
                /\ UNCHANGED tag_values
           ELSE /\ tag_values' = [t \in targets |-> r[t].value]
                /\ ftt_pc' = "returned"
    /\ UNCHANGED <<ftt_scope, ftt_tags, ftt_types, targets>>
    /\ UNCHANGED <<hvars, saxvars, mainvars, cmpvars, typevars, expvars>>

NextTags ==
    \/ FindTargetTags
    \/ GetValues

SpecTags == InitTags /\ [][NextTags]_vars

----------------------------------------------------------------------------
\* Properties of the structural decoder (diff/l5x.py).

Containers == {"AddOnInstructionDefinitions", "Modules"}
MemberNodes == {"Element", "StructureMember", "ArrayMember", "DataValueMember"}

Top == open[Len(open)]
\* the event of this step is the end of the element on top
ClosesTop == open # << >> /\ open' = SubSeq(open, 1, Len(open) - 1)

\* the top element is a PRE member in decimal radix
TopIsPreset ==
    /\ open # << >>
    /\ Top.name = "DataValueMember"
    /\ HasAttr(Top.attrs, "Name") /\ Top.attrs["Name"] = "PRE"
    /\ HasAttr(Top.attrs, "Radix") /\ Top.attrs["Radix"] = "Decimal"
    /\ HasAttr(Top.attrs, "Value")
    /\ \E v \in PresetValues : v.text = Top.attrs["Value"]
PresetInt == (CHOOSE v \in PresetValues : v.text = Top.attrs["Value"]).int

HasOpenTag == \E i \in 1..Len(open) : open[i].name = "Tag"
InnermostTag ==
    CHOOSE i \in 1..Len(open) :
        open[i].name = "Tag" /\ \A j \in (i + 1)..Len(open) : open[j].name # "Tag"

\* the path segment a member node stands for
SegmentOf(f) ==
    IF f.name = "Element"
    THEN Tup((CHOOSE x \in IndexTexts : x.text = f.attrs["Index"]).tuple)
    ELSE Str(f.attrs["Name"])
\* the segments of the member nodes open above element t, outermost first
OpenMembers(t) ==
    LET m == SelectSeq(SubSeq(open, t + 1, Len(open)), LAMBDA f : f.name \in MemberNodes)
    IN  [i \in 1..Len(m) |-> SegmentOf(m[i])]

\* C2: while an AddOnInstructionDefinitions or Modules container is open, values
\* and no_data are what they were when the container started, whatever its
\* subtree holds, and the container's own end event changes neither.
C2_InsideContainer ==
    \A i \in 1..Len(open) :
        open[i].name \in Containers =>
            values = open[i].values0 /\ no_data = open[i].no_data0
C2_ContainerClose ==
    (ClosesTop /\ Top.name \in Containers) => (values' = values /\ no_data' = no_data)
C2_SuppressionCorrect == []C2_InsideContainer /\ [][C2_ContainerClose]_vars

\* C2 witness: a PRE member in decimal radix has started inside a Tag inside a
\* container of the Controller.
C2_Witness ==
    /\ TopIsPreset
    /\ scope = "Controller"
    /\ \E i \in 1..Len(open), j \in 1..Len(open) :
          i < j /\ open[i].name \in Containers /\ IsBaseTag(open[j].name, open[j].attrs)

\* C3: while an alias Tag is open, values and no_data are what they were when it
\* started, and its end event (end_Tag) changes neither.
C3_InsideAlias ==
    \A i \in 1..Len(open) :
        IsAliasTag(open[i].name, open[i].attrs) =>
            values = open[i].values0 /\ no_data = open[i].no_data0
C3_AliasClose ==
    (ClosesTop /\ IsAliasTag(Top.name, Top.attrs))
        => (values' = values /\ no_data' = no_data)
C3_AliasExcluded == []C3_InsideAlias /\ [][C3_AliasClose]_vars

\* C3 witness: a PRE member in decimal radix has started inside a dispatched
\* alias Tag that follows a decoded tag, while raw capture is on.
C3_Witness ==
    /\ TopIsPreset
    /\ tag_name # None
    /\ ~raw_tag_data.isNone
    /\ ~ignored_elements.isNone
    /\ Len(ignored_elements.list) < Len(open)
    /\ IsAliasTag(open[Len(open) - Len(ignored_elements.list)].name,
                  open[Len(open) - Len(ignored_elements.list)].attrs)

\* the event of this step is the start of an element
StartsElement == Len(open') = Len(open) + 1

\* What C10 says of the member stack of Tag t, and of a PRE member of Tag t that
\* has just started.
C10_MemberStack(t) == tag_members = List(OpenMembers(t))
C10_Recorded(t) ==
    TopIsPreset =>
        LET key == Tag(scope, open[t].attrs["Name"], OpenMembers(t))
        IN  /\ key \in DOMAIN values
            /\ values[key] = PresetInt
            /\ key.members[Len(key.members)] = Str("PRE")

PresetPath == Tag("Controller", "T1", <<Str("PRE")>>)
DecoratedT1(d, n) ==
    \E r \in DocContents, v \in PresetValues :
        v.int = n /\ d = Doc("Base", [Format |-> "Decorated"], r, v.text)

\* The end-to-end scenario: T1 with PRE = 100 in one file and 250 in the other.
C10_EndToEnd ==
    (/\ pc = "reported"
     /\ \/ DecoratedT1(docs[1], 100) /\ DecoratedT1(docs[2], 250)
        \/ DecoratedT1(docs[1], 250) /\ DecoratedT1(docs[2], 100))
        => diff = {PresetPath}

\* no exception so far, no suppression, and a Tag is open
InsideTag == error = NoError /\ ignored_elements.isNone /\ HasOpenTag
\* the same, and no non-alias Tag has started inside the innermost open Tag
InsidePlainTag == InsideTag /\ ~open[InnermostTag].nested

\* C10 as stated: inside any dispatched non-alias Tag the member stack is the
\* sequence of the open member nodes of the innermost open Tag (so every close
\* pops what its start pushed, and the stack is empty when the Tag closes), and
\* a PRE member in decimal radix that starts is recorded at once under (scope,
\* name of that Tag, that sequence) with its integer value; the end-to-end
\* scenario gives diff = {(Controller, T1, (PRE))}.
C10_AnyTag_Stack == InsideTag => C10_MemberStack(InnermostTag)
C10_AnyTag_Start == StartsElement => (InsideTag => C10_Recorded(InnermostTag))'
C10_Stack == InsidePlainTag => C10_MemberStack(InnermostTag)
C10_Start == StartsElement => (InsidePlainTag => C10_Recorded(InnermostTag))'
ClosesPlainTag ==
    /\ ClosesTop
    /\ error = NoError
    /\ ignored_elements.isNone
    /\ IsBaseTag(Top.name, Top.attrs)
    /\ HasAttr(Top.attrs, "Name")
    /\ ~Top.tag_inside
\* the raw payload captured so far is hexadecimal text, or nothing was captured
RawDecodes == raw_tag_data.isNone \/ IsHex(Join(raw_tag_data.list))
RawBytes == IF raw_tag_data.isNone THEN << >> ELSE FromHex(Join(raw_tag_data.list))

\* C11: the close of a non-alias Tag that met no Data node of format Decorated
\* (whether it met no Data node, or only Data nodes of another format, or a
\* Data node without Format) records the one no_data entry (scope, tag name,
\* ()) with the decoded raw bytes, raises nothing and clears the raw buffer;
\* the close of a Tag that met decorated data records nothing.  Stated for
\* Tags with no Tag inside them and for payloads that are hexadecimal text.
C11_Undecorated ==
    (ClosesPlainTag /\ ~Top.decorated /\ RawDecodes) =>
        /\ error' = NoError
        /\ no_data' = DictSet(no_data, Tag(scope, Top.attrs["Name"], << >>), RawBytes)
        /\ raw_tag_data' = NoneList
C11_Decorated ==
    (ClosesPlainTag /\ Top.decorated) => no_data' = no_data
C11_NoDataAtClose == [][C11_Undecorated /\ C11_Decorated]_vars

\* C12: the exclusions set handed to the report is the intersection of the key
\* sets of the two files' no_data mappings, whether the raw bytes of a key are
\* equal or different in the two files.
C12_ExclusionsIntersection ==
    pc = "reported" =>
        excl = DOMAIN tags[1].no_data \cap DOMAIN tags[2].no_data

\* C13: a key of values always has members and a key of no_data never has, so
\* no key of either file's no_data is in the value diff; a tag undecorated in
\* both files with different raw bytes is in the exclusions set.
C13_NoDataNeverDiffed ==
    /\ \A k \in DOMAIN values : k.members # << >>
    /\ \A k \in DOMAIN no_data : k.members = << >>
    /\ pc = "reported" =>
          /\ \A k \in DOMAIN tags[1].no_data \cup DOMAIN tags[2].no_data :
                k \notin diff
          /\ \A k \in DOMAIN tags[1].no_data \cap DOMAIN tags[2].no_data :
                tags[1].no_data[k] # tags[2].no_data[k] => k \in excl

\* C13 witness: the report of two files with the same undecorated tag, its raw
\* bytes and its preset different in the two.
C13_Witness ==
    /\ pc = "reported"
    /\ \E k \in DOMAIN tags[1].no_data \cap DOMAIN tags[2].no_data :
          tags[1].no_data[k] # tags[2].no_data[k] /\ k \in excl
    /\ diff # {}

\* this step dispatches the start of an element to its handler
DispatchesStart == StartsElement /\ error = NoError /\ ignored_elements.isNone
\* the element this step starts
Started == open'[Len(open')]

\* once an exception left a handler the decode does not go on: the handler is
\* not called again and parse returns nothing
DecodeAborts ==
    error # NoError =>
        /\ UNCHANGED <<hvars, saxvars, tags>>
        /\ pc' = "raised"

\* C14: the start of a PRE DataValueMember with a Radix other than Decimal, when
\* dispatched, raises and stores no value; after an exception the handler is
\* not called again and parse returns no mapping.
C14_Start ==
    (/\ DispatchesStart
     /\ Started.name = "DataValueMember"
     /\ HasAttr(Started.attrs, "Name") /\ Started.attrs["Name"] = "PRE"
     /\ HasAttr(Started.attrs, "Radix") /\ Started.attrs["Radix"] # "Decimal")
        => (error' # NoError /\ values' = values)
C14_RadixFatal ==
    /\ [][C14_Start /\ DecodeAborts]_vars
    /\ [](pc = "raised" => error # NoError /\ tags = << >>)

\* C14 witness: parse raised at a hexadecimal PRE member that follows a recorded
\* one.
C14_Witness ==
    /\ pc = "raised"
    /\ error = "ValueError"
    /\ values # EmptyDict
    /\ tags = << >>
    /\ open # << >>
    /\ Top.name = "DataValueMember"
    /\ Top.attrs["Radix"] = "Hex"

\* the element lacks one of the attributes named: the Name of a Tag or of a
\* member, the Index of an Element, the Radix or the Value of a DataValueMember
LacksNamedAttr(e) ==
    \/ e.name = "Tag" /\ ~HasAttr(e.attrs, "Name")
    \/ e.name \in {"StructureMember", "ArrayMember", "DataValueMember"}
          /\ ~HasAttr(e.attrs, "Name")
    \/ e.name = "Element" /\ ~HasAttr(e.attrs, "Index")
    \/ e.name = "DataValueMember"
          /\ (~HasAttr(e.attrs, "Radix") \/ ~HasAttr(e.attrs, "Value"))

\* the element lacks one of those attributes and its handler reads it: an alias
\* Tag's Name is not read, Radix and Value are read only of a member named PRE
LacksReadAttr(e) ==
    \/ e.name = "Tag" /\ ~HasAttr(e.attrs, "Name")
          /\ ~(HasAttr(e.attrs, "TagType") /\ e.attrs["TagType"] = "Alias")
    \/ e.name \in {"StructureMember", "ArrayMember", "DataValueMember"}
          /\ ~HasAttr(e.attrs, "Name")
    \/ e.name = "Element" /\ ~HasAttr(e.attrs, "Index")
    \/ e.name = "DataValueMember"
          /\ HasAttr(e.attrs, "Name") /\ e.attrs["Name"] = "PRE"
          /\ (~HasAttr(e.attrs, "Radix") \/ ~HasAttr(e.attrs, "Value"))

\* C15 as stated: the dispatched start of an element that lacks the Name of a
\* Tag or of a member, the Index of an Element or the Radix or Value of a
\* DataValueMember raises, and the decode ends without a mapping.
C15_AnyMissing ==
    /\ [][((DispatchesStart /\ LacksNamedAttr(Started)) => error' # NoError)
           /\ DecodeAborts]_vars
    /\ [](pc = "raised" => tags = << >>)

\* C15: the dispatched start of an element that lacks an attribute its handler
\* reads (the Name of a Tag that is not an alias, the Name of a member, the
\* Index of an Element, the Radix or the Value of a DataValueMember named PRE)
\* raises and records nothing; after an exception the handler is not called
\* again and parse returns no mapping.
C15_MissingReadAttr ==
    /\ [][((DispatchesStart /\ LacksReadAttr(Started))
              => (error' # NoError /\ values' = values /\ no_data' = no_data))
           /\ DecodeAborts]_vars
    /\ [](pc = "raised" => tags = << >>)

\* C15 witness: parse raised at an Element without Index that follows a
\* recorded preset.
C15_Witness ==
    /\ pc = "raised"
    /\ error = "KeyError"
    /\ values # EmptyDict
    /\ tags = << >>
    /\ open # << >>
    /\ Top.name = "Element"
    /\ ~HasAttr(Top.attrs, "Index")

\* the bytes a raw payload of the project files denotes
DocBytes(r) == IF r = <<"0", "A">> THEN <<10>> ELSE <<255>>

\* h holds the mappings of project file d: the preset of T1 unless T1 is an
\* alias, and the raw bytes of T1 when it is a Base tag without decorated data
IsResultOf(h, d) ==
    \E t \in {"Base", "Alias"}, f \in {[Format |-> "Decorated"], NoAttrs},
       r \in DocContents, v \in PresetValues :
        /\ d = Doc(t, f, r, v.text)
        /\ h.values = (IF t = "Alias" THEN EmptyDict
                       ELSE DictSet(EmptyDict, PresetPath, v.int))
        /\ h.no_data = (IF t = "Base" /\ f = NoAttrs
                        THEN DictSet(EmptyDict, Tag("Controller", "T1", << >>),
                                     DocBytes(r))
                        ELSE EmptyDict)

\* C16: every parse starts with a handler in its initial state and no open
\* element; the mappings parse returns for a file are those of that file alone,
\* whatever file was decoded before it; and the same file decoded twice gives
\* equal values and equal no_data mappings.
C16_FreshPerPass ==
    /\ (pc = "parsing" /\ nevents = 0) => (HandlerInit /\ open = << >>)
    /\ \A i \in DOMAIN docs \cap 1..Len(tags) : IsResultOf(tags[i], docs[i])
    /\ (Len(tags) = 2 /\ docs[1] = docs[2]) => tags[1] = tags[2]

\* C16 witness: the second file, whose only tag is an alias, was decoded to
\* empty mappings after a first file that gave a preset and raw bytes.
C16_Witness ==
    /\ pc = "returned"
    /\ Len(tags) = 2
    /\ tags[1].values # EmptyDict
    /\ tags[1].no_data # EmptyDict
    /\ tags[2] = [values |-> EmptyDict, no_data |-> EmptyDict]

\* this step delivers character content
DeliversCharacters == open' = open /\ nevents' = nevents + 1

\* C17: the dispatched start of a Data node that is not of format Decorated
\* (Format absent, or Format with another value) leaves an empty raw buffer,
\* and while a buffer is kept inside a Tag every characters event appends its
\* content to it.
C17_CaptureBegins ==
    (/\ DispatchesStart
     /\ Started.name = "Data"
     /\ ~IsDecoratedData(Started.name, Started.attrs))
        => raw_tag_data' = List(<< >>)
C17_Appended ==
    (DeliversCharacters /\ InsideTag /\ ~raw_tag_data.isNone) =>
        \E c \in Contents \cup DocContents :
            raw_tag_data' = List(Append(raw_tag_data.list, c))
C17_RawCapture == [][C17_CaptureBegins /\ C17_Appended]_vars

\* the open element that started the suppression now on
Suppressor == Len(open) - Len(ignored_elements.list)
\* the handler fields other than ignored_elements
dispatched_fields == <<scope, tag_name, tag_members, tag_has_decorated_data, is_alias,
                       raw_tag_data, values, no_data, error>>

\* C18: ignored_elements is not None exactly while an element that starts
\* suppression (AddOnInstructionDefinitions, Modules, an alias Tag) is open; it
\* then holds the names of the open elements inside that element, in order.
\* Inside the element a start or end event only pushes or pops a name and
\* reaches no handler; the element's own end event sets ignored_elements to
\* None and is dispatched (end_Tag of an alias clears the raw buffer and
\* records nothing); a start event met outside suppression is dispatched, and
\* leaves ignored_elements None unless it starts suppression itself.
C18_Stack ==
    IF ignored_elements.isNone
    THEN \A i \in 1..Len(open) : ~SuppressionStart(open[i].name, open[i].attrs)
    ELSE /\ Suppressor >= 1
         /\ SuppressionStart(open[Suppressor].name, open[Suppressor].attrs)
         /\ \A i \in 1..(Suppressor - 1) :
               ~SuppressionStart(open[i].name, open[i].attrs)
         /\ ignored_elements.list =
               [i \in 1..Len(ignored_elements.list) |-> open[Suppressor + i].name]
C18_Inside ==
    (/\ ~ignored_elements.isNone
     /\ StartsElement \/ (ClosesTop /\ ignored_elements.list # << >>))
        => /\ UNCHANGED dispatched_fields
           /\ ~ignored_elements'.isNone
           /\ Len(ignored_elements'.list) =
                 Len(ignored_elements.list) + (IF StartsElement THEN 1 ELSE -1)
C18_Close ==
    (ClosesTop /\ ~ignored_elements.isNone /\ ignored_elements.list = << >>)
        => /\ ignored_elements' = NoneList
           /\ raw_tag_data' =
                 (IF IsAliasTag(Top.name, Top.attrs) THEN NoneList ELSE raw_tag_data)
           /\ UNCHANGED <<scope, tag_name, tag_members, tag_has_decorated_data,
                          is_alias, values, no_data, error>>
C18_Outside ==
    DispatchesStart =>
        (ignored_elements' = NoneList <=> ~SuppressionStart(Started.name, Started.attrs))
C18_SuppressionExtent ==
    []C18_Stack /\ [][C18_Inside /\ C18_Close /\ C18_Outside]_vars

\* C18 witness: two elements are open inside an alias Tag of the Controller,
\* the inner one a Tag.
C18_Witness ==
    /\ ~ignored_elements.isNone
    /\ Len(ignored_elements.list) = 2
    /\ ignored_elements.list[2] = "Tag"
    /\ Suppressor >= 2
    /\ IsAliasTag(open[Suppressor].name, open[Suppressor].attrs)
    /\ scope = "Controller"

\* the open Program elements, and the document so far nested as a project
\* file is: the Controller outermost, and at most one Program open
OpenPrograms == {i \in 1..Len(open) : open[i].name = "Program"}
ScopesWellNested ==
    /\ open # << >>
    /\ open[1].name = "Controller"
    /\ \A i \in 2..Len(open) : open[i].name # "Controller"
    /\ Cardinality(OpenPrograms) <= 1
    /\ \A i \in OpenPrograms : HasAttr(open[i].attrs, "Name")
\* the scope of the container that encloses the elements now open
EnclosingScope ==
    IF OpenPrograms = {} THEN "Controller"
    ELSE open[CHOOSE i \in OpenPrograms : TRUE].attrs["Name"]
\* the keys this step adds to values or to no_data
Recorded ==
    (DOMAIN values' \ DOMAIN values) \cup (DOMAIN no_data' \ DOMAIN no_data)

\* C19: every entry recorded in values or no_data carries the scope of the
\* container that encloses its Tag: the name of the open Program, and
\* "Controller" when no Program is open, also for a Tag of the Controller that
\* comes after a Program has closed.
C19_ScopeOfEntry ==
    [][ScopesWellNested => \A k \in Recorded : k.scope = EnclosingScope]_vars

\* C20: the assertion of ignore_children never fails: no handler that starts
\* suppression is called while ignored_elements is not None, and an element
\* that would start suppression, met inside suppression, is only pushed.
C20_NoNestedSuppression ==
    /\ error # "AssertionError"
    /\ ~ignored_elements.isNone =>
          \A i \in (Suppressor + 1)..Len(open) :
              ignored_elements.list[i - Suppressor] = open[i].name

\* C20 witness: a Modules element and an alias Tag have started inside an
\* AddOnInstructionDefinitions element and were pushed without error.
C20_Witness ==
    /\ error = NoError
    /\ ~ignored_elements.isNone
    /\ Suppressor >= 1
    /\ open[Suppressor].name = "AddOnInstructionDefinitions"
    /\ ignored_elements.list = <<"Modules", "Tag">>
    /\ IsAliasTag(Top.name, Top.attrs)

\* a non-alias Tag element is open
BaseTagOpen == \E i \in 1..Len(open) : IsBaseTag(open[i].name, open[i].attrs)

\* C22: an entry is added to values only while a non-alias Tag element is
\* open: the start of a PRE member outside every Tag, before the first Tag or
\* after a Tag has closed, leaves values as it is.
C22_OnlyInsideTag ==
    [][(StartsElement /\ ~BaseTagOpen) => values' = values]_vars

----------------------------------------------------------------------------
\* Properties of compare.

\* C1: compare(a, b) returns exactly the keys that are in a and in b with
\* a[k] # b[k]; a key in only one of the two mappings is not in the result.
C1_CompareContract ==
    cmp_pc = "returned" =>
        /\ cmp_diffs = {k \in DOMAIN cmp_a \cap DOMAIN cmp_b : cmp_a[k] # cmp_b[k]}
        /\ \A k \in CmpKeys :
              (k \in DOMAIN cmp_a) # (k \in DOMAIN cmp_b) => k \notin cmp_diffs

\* C1 witness: compare has returned on mappings with a key only in a, a key
\* only in b, and a key in both with different values.
C1_Witness ==
    /\ cmp_pc = "returned"
    /\ DOMAIN cmp_a \ DOMAIN cmp_b # {}
    /\ DOMAIN cmp_b \ DOMAIN cmp_a # {}
    /\ cmp_diffs # {}

\* C21: the result of compare does not depend on the order of its arguments,
\* compare(a, b) = compare(b, a), though only the keys of the first are
\* iterated; and a mapping compared with itself gives the empty set.
C21_Symmetric ==
    cmp_pc = "returned" =>
        /\ cmp_diffs = compare(cmp_b, cmp_a)
        /\ compare(cmp_a, cmp_a) = {}
        /\ compare(cmp_b, cmp_b) = {}

\* C21 witness: compare has returned a key for two different mappings, each
\* with a key the other lacks, and the swapped call returns the same set.
C21_Witness ==
    /\ cmp_pc = "returned"
    /\ DOMAIN cmp_a \ DOMAIN cmp_b # {}
    /\ DOMAIN cmp_b \ DOMAIN cmp_a # {}
    /\ cmp_diffs # {}
    /\ cmp_diffs = compare(cmp_b, cmp_a)

----------------------------------------------------------------------------
\* Properties of find_target_types (diff/project.py).

\* the pairs (type, datatype of one of its members)
TypeRefs(types) ==
    UNION {{<<types[i].name, MembersOf(types[i])[j].datatype>> :
                j \in {j \in 1..Len(MembersOf(types[i])) :
                          HasField(MembersOf(types[i])[j], "datatype")}} :
           i \in 1..Len(types)}
RelCompose(R, Q) ==
    UNION {{<<x[1], y[2]>> : y \in {y \in Q : y[1] = x[2]}} : x \in R}
RECURSIVE RelPaths(_, _)
RelPaths(R, n) ==
    IF n <= 1 THEN R ELSE R \cup RelCompose(RelPaths(R, n - 1), R)
\* no type contains itself, directly or through other types
Acyclic(types) ==
    \A i \in 1..Len(types) :
        <<types[i].name, types[i].name>> \notin RelPaths(TypeRefs(types), Len(types))

\* the templates the members of a type give under the mapping tt
Derived(tt, type) ==
    UNION {{MemberPath(MembersOf(type)[j], q) : q \in tt[MembersOf(type)[j].datatype]} :
           j \in {j \in 1..Len(MembersOf(type)) :
                     /\ HasField(MembersOf(type)[j], "datatype")
                     /\ MembersOf(type)[j].datatype \in DOMAIN tt}}

\* C4: the mapping find_target_types returns is the complete closure: TIMER and
\* COUNTER map to (PRE), and a type of the catalog maps to exactly the
\* templates its members give under the returned mapping (so one further pass
\* would add nothing).  Stated here for catalogs without cycles only.
C4_CompleteClosure ==
    (ft_pc = "returned" /\ Acyclic(all_types)) =>
        /\ target_types["TIMER"] = {<<Str("PRE")>>}
        /\ target_types["COUNTER"] = {<<Str("PRE")>>}
        /\ \A i \in 1..Len(all_types) :
              IF all_types[i].name \in DOMAIN target_types
              THEN target_types[all_types[i].name] = Derived(target_types, all_types[i])
              ELSE Derived(target_types, all_types[i]) = {}

\* a type with its members in the other order (a type has at most two members)
WithMembers(type, rev) ==
    IF ~rev THEN type
    ELSE IF HasField(type, "members") THEN Udt(type.name, Reversed(type.members))
    ELSE Aoi(type.name, Reversed(type.local_tags))
SeqVariants(types) ==
    {[i \in 1..Len(types) |-> WithMembers(types[p[i]], rev[i])] :
        p \in Orders(1..Len(types)), rev \in [1..Len(types) -> BOOLEAN]}
\* the same catalog with its types and their members in every order
Reorderings(c) ==
    {[datatypes |-> d, aois |-> a] :
        d \in SeqVariants(c.datatypes), a \in SeqVariants(c.aois)}

\* C5: the mapping find_target_types returns is the same for every order of
\* the catalog's types and of the members of a type.  Stated here for
\* catalogs without cycles only.
C5_OrderIndependent ==
    (ft_pc = "returned" /\ Acyclic(all_types)) =>
        \A c \in Reorderings(ctl) :
            /\ find_target_types(c).error = NoError
            /\ find_target_types(c).target_types = target_types

\* entries are only added to the mapping
C6_Monotone ==
    \A k \in DOMAIN target_types :
        /\ k \in DOMAIN target_types'
        /\ target_types[k] \subseteq target_types'[k]

\* C6: for every catalog, cyclic and self-referential ones included,
\* find_target_types terminates and returns a mapping, and entries are only
\* ever added to the mapping.
C6_TerminatesMonotone ==
    /\ <>(ft_pc = "returned")
    /\ [][C6_Monotone]_vars

\* the steps of find_target_types are those of the function run as a whole
TypesStepwise ==
    /\ ft_pc = "returned" =>
          find_target_types(ctl) = [target_types |-> target_types, error |-> NoError]
    /\ ft_pc = "raised" => find_target_types(ctl).error = "RuntimeError"

----------------------------------------------------------------------------
\* Properties of expand_dims, find_target_tags and get_value (diff/project.py).

\* the index tuples of a shape: one component below the size, for every axis
IndexTuples(dim) ==
    {t \in [1..Len(dim) -> 0..MaxDim] : \A i \in 1..Len(dim) : t[i] < dim[i]}
\* the concrete paths of a template: a named segment in place, an index tuple
\* for a shape
RECURSIVE Resolutions(_)
Resolutions(path) ==
    IF path = << >> THEN {<< >>}
    ELSE {<<h>> \o r :
             h \in (IF IsTuple(Head(path))
                    THEN {Tup(t) : t \in IndexTuples(Head(path).tup)}
                    ELSE {Head(path)}),
             r \in Resolutions(Tail(path))}
\* the product of all dimension sizes of a template
RECURSIVE SizeProduct(_)
RECURSIVE DimProduct(_)
DimProduct(dim) ==
    IF dim = << >> THEN 1 ELSE Head(dim) * DimProduct(Tail(dim))
SizeProduct(path) ==
    IF path = << >> THEN 1
    ELSE (IF IsTuple(Head(path)) THEN DimProduct(Head(path).tup) ELSE 1)
             * SizeProduct(Tail(path))

\* C7: expand_dims returns exactly one concrete path per element of the
\* Cartesian product of range(size) over all axes of all shapes of the
\* template, as many as the product of the sizes, with every named segment in
\* place.
C7_CartesianProduct ==
    exp_pc = "returned" =>
        /\ exp_combos = Resolutions(exp_path)
        /\ Cardinality(exp_combos) = SizeProduct(exp_path)
        /\ exp_path = <<Tup(<<2, 3>>), Str("tmr"), Str("PRE")>>
              => Cardinality(exp_combos) = 6
        /\ Indices(exp_path) = << >> => exp_combos = {exp_path}
        /\ (\E j \in 1..Len(exp_path) :
               IsTuple(exp_path[j]) /\ \E a \in 1..Len(exp_path[j].tup) :
                   exp_path[j].tup[a] = 0)
              => exp_combos = {}

\* C7 witness: the template with the single shape (2, 3) was expanded to six
\* paths.
C7_Witness ==
    /\ exp_pc = "returned"
    /\ exp_path = <<Tup(<<2, 3>>), Str("tmr"), Str("PRE")>>
    /\ Cardinality(exp_combos) = 6
    /\ <<Tup(<<1, 2>>), Str("tmr"), Str("PRE")>> \in exp_combos

\* C8: find_target_tags returns exactly the Tag(scope, name, p) of the declared
\* tags whose datatype is a key of the closure, p a concrete path of a template
\* of that datatype with the tag's shape in front of it for an array tag; the
\* array Arr of shape (2) and type MYUDT with the template (tmr, PRE) gives
\* the two paths ((0,), tmr, PRE) and ((1,), tmr, PRE).
C8_TargetTags ==
    ftt_pc # "call" =>
        /\ \A name \in DOMAIN ftt_tags :
              ftt_tags[name].datatype \notin DOMAIN ftt_types =>
                  \A t \in targets : t.name # name
        /\ \A name \in DOMAIN ftt_tags :
              ftt_tags[name].datatype \in DOMAIN ftt_types =>
                  {t.members : t \in {t \in targets : t.name = name}} =
                      UNION {Resolutions(
                                 (IF ftt_tags[name].dim # << >>
                                  THEN <<Tup(ftt_tags[name].dim)>> ELSE << >>)
                                     \o path) :
                             path \in ftt_types[ftt_tags[name].datatype]}
        /\ \A t \in targets : t.scope = ftt_scope /\ t.name \in DOMAIN ftt_tags
        /\ (/\ DOMAIN ftt_tags = {"Arr"}
            /\ ftt_tags["Arr"].datatype = "MYUDT"
            /\ ftt_tags["Arr"].dim = <<2>>
            /\ ftt_types["MYUDT"] = {<<Str("tmr"), Str("PRE")>>})
              => targets =
                    {Tag(ftt_scope, "Arr", <<Tup(<<i>>), Str("tmr"), Str("PRE")>>) :
                        i \in {0, 1}}

\* C8 witness: the targets of the array Arr of shape (2) and type MYUDT in a
\* program, next to a tag of a type outside the closure.
C8_Witness ==
    /\ ftt_pc = "found"
    /\ ftt_scope = "P1"
    /\ DOMAIN ftt_tags = {"Arr", "X"}
    /\ ftt_tags["X"].datatype = "DINT"
    /\ ftt_tags["Arr"].datatype = "MYUDT"
    /\ ftt_tags["Arr"].dim = <<2>>
    /\ ftt_types["MYUDT"] = {<<Str("tmr"), Str("PRE")>>}
    /\ Cardinality(targets) = 2

\* C9: for a tag whose value is nested with its outermost list as long as the
\* last declared dimension, get_value resolves every index tuple of
\* expand_dims without an out-of-range error, and distinct paths resolve to
\* distinct elements.
C9_IndicesResolve ==
    /\ ftt_pc # "raised"
    /\ ftt_pc = "returned" =>
          /\ DOMAIN tag_values = targets
          /\ \A t \in targets : tag_values[t].kind = "int"
          /\ \A t1 \in targets, t2 \in targets :
                t1 # t2 => tag_values[t1].items # tag_values[t2].items

\* C9 witness: the values of the six elements of an array of shape (2, 3).
C9_Witness ==
    /\ ftt_pc = "returned"
    /\ DOMAIN ftt_tags = {"Arr"}
    /\ ftt_tags["Arr"].datatype = "TIMER"
    /\ ftt_tags["Arr"].dim = <<2, 3>>
    /\ Cardinality(DOMAIN tag_values) = 6
    /\ Tag(ftt_scope, "Arr", <<Tup(<<1, 2>>), Str("PRE")>>) \in DOMAIN tag_values

====
